---------------------------- MODULE Spec2Model ----------------------------
(***************************************************************************)
(* Model of scripts/antigravity_quota.py: the simplified protobuf decoder  *)
(* (read_varint, skip_field, find_field, parse_timestamp,                  *)
(* parse_oauth_token_info) and the command's linear flow (main).           *)
(*                                                                         *)
(* A byte buffer is a sequence of naturals in 0..255; Python's 0-based     *)
(* index i is element i+1 of the sequence.  A Python int decoded by        *)
(* read_varint is kept as its base-128 digits, least significant first and *)
(* without trailing zero digits (Python ints are unbounded, the checker's  *)
(* integers are not); ToNat gives the number where it is below 2^31.       *)
(***************************************************************************)
EXTENDS Integers, Sequences, FiniteSets, TLC

VARIABLES
    data,       \* the byte buffer handed to the decoder
    msg,        \* the fields data was encoded from (wf), or Raw
    call,       \* the decoder entry point called, with its arguments
    ret,        \* what that call returned or raised
    pc,         \* main: the step about to run ("off": main is not running)
    db,         \* main: the local credential store
    token_info, \* main: the record read_local_token_info returned
    steps,      \* main: the steps run so far, in order, each with its success
    exit_code   \* main: the process exit code (-1 while running)

vars == <<data, msg, call, ret, pc, db, token_info, steps, exit_code>>

(***************************************************************************)
(* Bounds of the model.                                                    *)
(***************************************************************************)
MaxRun == 11        \* longest run of continuation bytes handed to read_varint
MaxDigits == 2      \* base-128 digits of the exhaustively enumerated values
MaxLen == 3         \* length of the raw (arbitrary) buffers
MaxFields == 3      \* fields of a generated well-formed message
MaxCred == 2        \* fields of the credential record in main's store

(***************************************************************************)
(* Python values.                                                          *)
(***************************************************************************)
Min(a, b) == IF a < b THEN a ELSE b

\* bytes[a:b] for 0 <= a: Python clamps the slice to the buffer.
Slice(d, a, b) ==
    LET hi == Min(b, Len(d))
    IN  IF a >= hi THEN <<>> ELSE SubSeq(d, a + 1, hi)

RECURSIVE BitOr(_, _)
BitOr(a, b) ==
    IF a = 0 THEN b
    ELSE IF b = 0 THEN a
    ELSE (IF a % 2 = 1 \/ b % 2 = 1 THEN 1 ELSE 0) + 2 * BitOr(a \div 2, b \div 2)

\* A Python int as base-128 digits: drop the trailing (most significant) zeros.
RECURSIVE Norm(_)
Norm(ds) ==
    IF ds = <<>> THEN <<>>
    ELSE IF ds[Len(ds)] = 0 THEN Norm(SubSeq(ds, 1, Len(ds) - 1))
    ELSE ds

\* result | (group << shift), shift a multiple of 7: group lands on digit
\* shift/7 (0-based), or-ed with what is already there.
OrShl(result, group, shift) ==
    LET k == shift \div 7 + 1
        n == IF Len(result) > k THEN Len(result) ELSE k
    IN  [i \in 1..n |->
            LET old == IF i <= Len(result) THEN result[i] ELSE 0
            IN  IF i = k THEN BitOr(old, group) ELSE old]

RECURSIVE ToNat(_)
ToNat(ds) == IF ds = <<>> THEN 0 ELSE ds[1] + 128 * ToNat(Tail(ds))

(***************************************************************************)
(* read_varint (lines 51-63).                                              *)
(***************************************************************************)
RvOk(value, pos) == [ok |-> TRUE, value |-> value, pos |-> pos, err |-> ""]
RvRaise(e) == [ok |-> FALSE, value |-> <<>>, pos |-> 0, err |-> e]

\* faulty variant: the 0x7F mask is forgotten
PayloadWhole(byte) == byte
\* byte & 0x7F
Payload(byte) == byte % 128

\* faulty variant: the continuation test is inverted
MoreInverted(byte) == byte \div 128 = 0
\* not ((byte & 0x80) == 0)
More(byte) == byte \div 128 # 0

RECURSIVE rv_loop(_, _, _, _)
rv_loop(d, result, shift, pos) ==
    IF pos < Len(d)
    THEN LET byte == d[pos + 1]
             r2 == OrShl(result, Payload(byte), shift)
         IN  IF ~More(byte)
             THEN RvOk(Norm(r2), pos + 1)
             ELSE rv_loop(d, r2, shift + 7, pos + 1)
    ELSE RvRaise("Incomplete varint")

read_varint(d, offset) == rv_loop(d, <<>>, 0, offset)

(***************************************************************************)
(* skip_field (lines 66-79).                                               *)
(***************************************************************************)
SfOk(offset) == [ok |-> TRUE, offset |-> offset, err |-> ""]
SfRaise(e) == [ok |-> FALSE, offset |-> 0, err |-> e]

\* faulty variant: a 32-bit field is skipped as if it were 64-bit
skip_field_fixed32_as_64(d, offset, wire_type) ==
    IF wire_type = 0
    THEN LET r == read_varint(d, offset)
         IN  IF r.ok THEN SfOk(r.pos) ELSE SfRaise(r.err)
    ELSE IF wire_type = 1 THEN SfOk(offset + 8)
    ELSE IF wire_type = 2
    THEN LET r == read_varint(d, offset)
         IN  IF r.ok THEN SfOk(r.pos + ToNat(r.value)) ELSE SfRaise(r.err)
    ELSE IF wire_type = 5 THEN SfOk(offset + 8)
    ELSE SfRaise("Unknown wire type")

skip_field(d, offset, wire_type) ==
    IF wire_type = 0
    THEN LET r == read_varint(d, offset)
         IN  IF r.ok THEN SfOk(r.pos) ELSE SfRaise(r.err)
    ELSE IF wire_type = 1 THEN SfOk(offset + 8)
    ELSE IF wire_type = 2
    THEN LET r == read_varint(d, offset)
         IN  IF r.ok THEN SfOk(r.pos + ToNat(r.value)) ELSE SfRaise(r.err)
    ELSE IF wire_type = 5 THEN SfOk(offset + 4)
    ELSE SfRaise("Unknown wire type")

(***************************************************************************)
(* find_field (lines 82-96).                                               *)
(***************************************************************************)
FfBytes(b) == [kind |-> "bytes", bytes |-> b, err |-> ""]
FfNone == [kind |-> "None", bytes |-> <<>>, err |-> ""]
FfRaise(e) == [kind |-> "raise", bytes |-> <<>>, err |-> e]

\* faulty variant: the wire type is not tested
IsTargetAnyWireType(field_num, wire_type, target_field) == field_num = target_field
\* field_num == target_field and wire_type == 2
IsTarget(field_num, wire_type, target_field) ==
    field_num = target_field /\ wire_type = 2

RECURSIVE ff_loop(_, _, _)
ff_loop(d, target_field, offset) ==
    IF offset < Len(d)
    THEN LET t == read_varint(d, offset)
         IN  IF ~t.ok THEN FfNone      \* except ValueError: break
             ELSE LET tag == ToNat(t.value)
                      wire_type == tag % 8
                      field_num == tag \div 8
                  IN  IF IsTarget(field_num, wire_type, target_field)
                      THEN LET l == read_varint(d, t.pos)
                           IN  IF ~l.ok THEN FfRaise(l.err)
                               ELSE FfBytes(Slice(d, l.pos, l.pos + ToNat(l.value)))
                      ELSE LET s == skip_field(d, t.pos, wire_type)
                           IN  IF ~s.ok THEN FfRaise(s.err)
                               ELSE ff_loop(d, target_field, s.offset)
    ELSE FfNone

find_field(d, target_field) == ff_loop(d, target_field, 0)

(***************************************************************************)
(* parse_timestamp (lines 99-111).                                         *)
(***************************************************************************)
PyInt(n) == [t |-> "int", n |-> n, s |-> <<>>]
PyStr(s) == [t |-> "str", n |-> 0, s |-> s]
PyNone == [t |-> "None", n |-> 0, s |-> <<>>]

TsValue(v) == [ok |-> TRUE, value |-> v, err |-> ""]
TsRaise(e) == [ok |-> FALSE, value |-> PyNone, err |-> e]

\* faulty variant: the wire type is not tested
IsSecondsAnyWireType(field_num, wire_type) == field_num = 1
\* field_num == 1 and wire_type == 0
IsSeconds(field_num, wire_type) == field_num = 1 /\ wire_type = 0

RECURSIVE ts_loop(_, _)
ts_loop(d, offset) ==
    IF offset < Len(d)
    THEN LET t == read_varint(d, offset)
         IN  IF ~t.ok THEN TsRaise(t.err)
             ELSE LET tag == ToNat(t.value)
                      wire_type == tag % 8
                      field_num == tag \div 8
                  IN  IF IsSeconds(field_num, wire_type)
                      THEN LET v == read_varint(d, t.pos)
                           IN  IF ~v.ok THEN TsRaise(v.err)
                               ELSE TsValue(PyInt(ToNat(v.value)))
                      ELSE LET s == skip_field(d, t.pos, wire_type)
                           IN  IF ~s.ok THEN TsRaise(s.err)
                               ELSE ts_loop(d, s.offset)
    ELSE TsValue(PyNone)

parse_timestamp(d) == ts_loop(d, 0)

(***************************************************************************)
(* bytes.decode("utf-8") as called on lines 131-135: the code points, or   *)
(* UnicodeDecodeError on an ill-formed sequence (strict error handling).   *)
(***************************************************************************)
IsCont(d, i, lo, hi) == i <= Len(d) /\ d[i] >= lo /\ d[i] <= hi

RECURSIVE utf8_loop(_, _, _)
utf8_loop(d, i, out) ==
    IF i > Len(d) THEN [ok |-> TRUE, text |-> out]
    ELSE LET b == d[i]
             bad == [ok |-> FALSE, text |-> <<>>]
         IN  IF b < 128 THEN utf8_loop(d, i + 1, Append(out, b))
             ELSE IF b >= 194 /\ b <= 223
             THEN IF IsCont(d, i + 1, 128, 191)
                  THEN utf8_loop(d, i + 2, Append(out, (b - 192) * 64 + (d[i + 1] - 128)))
                  ELSE bad
             ELSE IF b >= 224 /\ b <= 239
             THEN LET lo == IF b = 224 THEN 160 ELSE 128
                      hi == IF b = 237 THEN 159 ELSE 191
                  IN  IF IsCont(d, i + 1, lo, hi) /\ IsCont(d, i + 2, 128, 191)
                      THEN utf8_loop(d, i + 3,
                               Append(out, (b - 224) * 4096 + (d[i + 1] - 128) * 64
                                           + (d[i + 2] - 128)))
                      ELSE bad
             ELSE IF b >= 240 /\ b <= 244
             THEN LET lo == IF b = 240 THEN 144 ELSE 128
                      hi == IF b = 244 THEN 143 ELSE 191
                  IN  IF /\ IsCont(d, i + 1, lo, hi)
                         /\ IsCont(d, i + 2, 128, 191)
                         /\ IsCont(d, i + 3, 128, 191)
                      THEN utf8_loop(d, i + 4,
                               Append(out, (b - 240) * 262144 + (d[i + 1] - 128) * 4096
                                           + (d[i + 2] - 128) * 64 + (d[i + 3] - 128)))
                      ELSE bad
             ELSE bad

Utf8Decode(d) == utf8_loop(d, 1, <<>>)

(***************************************************************************)
(* parse_oauth_token_info (lines 114-141).                                 *)
(***************************************************************************)
PoOk(info) == [ok |-> TRUE, info |-> info, err |-> ""]
PoRaise(e) == [ok |-> FALSE, info |-> <<>>, err |-> e]

\* info[key] = value
DictSet(info, key, value) ==
    [k \in (DOMAIN info) \cup {key} |-> IF k = key THEN value ELSE info[k]]

\* faulty variant: fields 2 and 3 fill each other's key
KeyOfSwapped(field_num) ==
    IF field_num = 1 THEN "access_token"
    ELSE IF field_num = 2 THEN "refresh_token"
    ELSE IF field_num = 3 THEN "token_type"
    ELSE IF field_num = 4 THEN "expiry_seconds"
    ELSE ""

\* the if/elif chain on field_num (lines 130-137): the key a number fills
KeyOf(field_num) ==
    IF field_num = 1 THEN "access_token"
    ELSE IF field_num = 2 THEN "token_type"
    ELSE IF field_num = 3 THEN "refresh_token"
    ELSE IF field_num = 4 THEN "expiry_seconds"
    ELSE ""

\* lines 130-137 for one length-delimited value
Store(info, field_num, value) ==
    LET key == KeyOf(field_num)
    IN  IF key = "" THEN PoOk(info)
        ELSE IF key = "expiry_seconds"
        THEN LET ts == parse_timestamp(value)
             IN  IF ts.ok THEN PoOk(DictSet(info, key, ts.value)) ELSE PoRaise(ts.err)
        ELSE LET txt == Utf8Decode(value)
             IN  IF txt.ok THEN PoOk(DictSet(info, key, PyStr(txt.text)))
                 ELSE PoRaise("UnicodeDecodeError")

RECURSIVE po_loop(_, _, _)
po_loop(d, offset, info) ==
    IF offset < Len(d)
    THEN LET t == read_varint(d, offset)
         IN  IF ~t.ok THEN PoRaise(t.err)
             ELSE LET tag == ToNat(t.value)
                      wire_type == tag % 8
                      field_num == tag \div 8
                  IN  IF wire_type = 2
                      THEN LET l == read_varint(d, t.pos)
                           IN  IF ~l.ok THEN PoRaise(l.err)
                               ELSE LET length == ToNat(l.value)
                                        value == Slice(d, l.pos, l.pos + length)
                                        st == Store(info, field_num, value)
                                    IN  IF ~st.ok THEN st
                                        ELSE po_loop(d, l.pos + length, st.info)
                      ELSE LET s == skip_field(d, t.pos, wire_type)
                           IN  IF ~s.ok THEN PoRaise(s.err)
                               ELSE po_loop(d, s.offset, info)
    ELSE PoOk(info)

parse_oauth_token_info(d) == po_loop(d, 0, <<>>)

(***************************************************************************)
(* The inputs of the varint decoder.                                       *)
(***************************************************************************)
\* The base-128 continuation encoding of a value given by its digits.
EncodeVarint(ds) ==
    IF ds = <<>> THEN <<0>>
    ELSE [i \in 1..Len(ds) |-> IF i < Len(ds) THEN ds[i] + 128 ELSE ds[i]]

Digits == {0, 1, 44, 127}

RECURSIVE DigitSeqs(_)
DigitSeqs(n) ==
    IF n = 0 THEN {<<>>}
    ELSE LET shorter == DigitSeqs(n - 1)
         IN  shorter \cup {Append(s, g) : s \in {t \in shorter : Len(t) = n - 1}, g \in Digits}

\* 2^63, 2^64 - 1 and 1700000000 beside the small values.
BigValues ==
    { <<0, 0, 0, 0, 0, 0, 0, 0, 0, 1>>,
      <<127, 127, 127, 127, 127, 127, 127, 127, 127, 1>>,
      <<0, 98, 79, 42, 6>> }

Values == {v \in DigitSeqs(MaxDigits) : Norm(v) = v} \cup BigValues

Prefixes == {<<>>, <<128>>, <<10, 255>>}
Suffixes == {<<>>, <<128>>, <<1, 0>>}

RunBytes == {128, 255}
Runs ==
    UNION {{[i \in 1..n |-> b] \o t : b \in RunBytes, t \in {<<>>, <<0>>, <<1>>, <<127>>}}
           : n \in 0..MaxRun}

VarintBuffers == {p \o EncodeVarint(v) \o s : p \in Prefixes, v \in Values, s \in Suffixes} \cup Runs

(***************************************************************************)
(* The inputs of the field decoders: raw buffers over a small alphabet,    *)
(* and well-formed messages encoded field by field.                        *)
(***************************************************************************)
\* 0x0A = field 1 length-delimited, 0x0B = field 1 with the unknown wire
\* type 3, 0x32 = field 6 length-delimited, 0x80 and 0xFF continue a varint.
RawBytes == {0, 1, 2, 10, 11, 50, 128, 255}

RECURSIVE SeqsUpTo(_, _)
SeqsUpTo(S, n) ==
    IF n = 0 THEN {<<>>}
    ELSE LET shorter == SeqsUpTo(S, n - 1)
         IN  shorter \cup {Append(s, x) : s \in {t \in shorter : Len(t) = n - 1}, x \in S}

RawBuffers == SeqsUpTo(RawBytes, MaxLen)

RECURSIVE FromNat(_)
FromNat(n) == IF n = 0 THEN <<>> ELSE <<n % 128>> \o FromNat(n \div 128)

\* One field on the wire: the tag, then the value by wire type.
EncodeField(f) ==
    EncodeVarint(FromNat(f.num * 8 + f.wt)) \o
    (IF f.wt = 0 THEN EncodeVarint(f.v)
     ELSE IF f.wt = 2 THEN EncodeVarint(FromNat(Len(f.b))) \o f.b
     ELSE f.b)

RECURSIVE EncodeMsg(_)
EncodeMsg(fs) == IF fs = <<>> THEN <<>> ELSE EncodeField(Head(fs)) \o EncodeMsg(Tail(fs))

\* A field: number, wire type, varint value v (wire type 0) or bytes b; sub
\* holds the fields b encodes when b is a nested message (wfsub).
FVarint(num, v) == [num |-> num, wt |-> 0, v |-> v, b |-> <<>>, sub |-> <<>>, wfsub |-> FALSE]
FFixed(num, wt, b) == [num |-> num, wt |-> wt, v |-> <<>>, b |-> b, sub |-> <<>>, wfsub |-> FALSE]
FBytes(num, b) == [num |-> num, wt |-> 2, v |-> <<>>, b |-> b, sub |-> <<>>, wfsub |-> FALSE]
FMsg(num, sub) == [num |-> num, wt |-> 2, v |-> <<>>, b |-> EncodeMsg(sub), sub |-> sub, wfsub |-> TRUE]

Catalog ==
    { FBytes(1, <<65>>),                   \* access token "A"
      FBytes(1, <<195, 169>>),            \* access token U+00E9
      FBytes(1, <<255>>),                 \* not UTF-8
      FVarint(1, <<5>>),                  \* field 1 as a varint
      FBytes(2, <<66>>),                  \* token type "B"
      FBytes(3, <<82, 84>>),              \* refresh token "RT"
      FBytes(3, <<>>),                    \* empty refresh token
      FFixed(3, 5, <<26, 1, 82, 0>>),     \* field 3 as fixed 32-bit
      FMsg(4, <<FVarint(1, <<44, 2>>)>>), \* expiry 300 s
      FMsg(4, <<FVarint(1, <<>>)>>),      \* expiry 0 s
      FMsg(4, <<>>),                      \* empty timestamp
      FMsg(4, <<FVarint(2, <<7>>), FVarint(1, <<1>>), FVarint(1, <<2>>)>>),
      FMsg(4, <<FBytes(1, <<65>>)>>),     \* timestamp whose field 1 is bytes
      FBytes(4, <<8>>),                   \* timestamp cut after its tag
      FFixed(4, 1, <<34, 2, 8, 9, 0, 0, 0, 0>>),
      FMsg(5, <<FBytes(1, <<66>>)>>),     \* unknown field nesting a field 1
      FMsg(6, <<FBytes(3, <<82, 84>>)>>), \* a nested credential record
      FVarint(7, <<0, 1>>) }              \* two-byte varint 128

Messages == SeqsUpTo(Catalog, MaxFields)

Targets == {1, 3, 4, 6}

Idle == [op |-> "idle", offset |-> 0, wire_type |-> 0, target |-> 0]
NoRet == [ok |-> FALSE, value |-> <<>>, pos |-> 0, err |-> "idle"]
Raw == [wf |-> FALSE, fields |-> <<>>]

MainIdle ==
    /\ pc = "off"
    /\ db = [kind |-> "none", raw |-> <<>>]
    /\ token_info = <<>>
    /\ steps = <<>>
    /\ exit_code = -1

InitVarint ==
    /\ data \in VarintBuffers
    /\ msg = Raw
    /\ call = Idle
    /\ ret = NoRet
    /\ MainIdle

InitRaw ==
    /\ data \in RawBuffers
    /\ msg = Raw
    /\ call = Idle
    /\ ret = NoRet
    /\ MainIdle

InitMsg ==
    /\ \E fs \in Messages :
          /\ msg = [wf |-> TRUE, fields |-> fs]
          /\ data = EncodeMsg(fs)
    /\ call = Idle
    /\ ret = NoRet
    /\ MainIdle

\* Each behaviour applies one entry point to the buffer.
Callable == call.op = "idle" /\ pc = "off"

Returned(op, offset, wire_type, target, result) ==
    /\ call' = [op |-> op, offset |-> offset, wire_type |-> wire_type, target |-> target]
    /\ ret' = result

CallReadVarint ==
    /\ Callable
    /\ \E offset \in 0..(Len(data) + 1) :
          Returned("read_varint", offset, 0, 0, read_varint(data, offset))
    /\ UNCHANGED <<data, msg, pc, db, token_info, steps, exit_code>>

CallSkipField ==
    /\ Callable
    /\ \E offset \in 0..(Len(data) + 1), wire_type \in 0..7 :
          Returned("skip_field", offset, wire_type, 0, skip_field(data, offset, wire_type))
    /\ UNCHANGED <<data, msg, pc, db, token_info, steps, exit_code>>

CallFindField ==
    /\ Callable
    /\ \E target \in Targets :
          Returned("find_field", 0, 0, target, find_field(data, target))
    /\ UNCHANGED <<data, msg, pc, db, token_info, steps, exit_code>>

CallParseTimestamp ==
    /\ Callable
    /\ Returned("parse_timestamp", 0, 0, 0, parse_timestamp(data))
    /\ UNCHANGED <<data, msg, pc, db, token_info, steps, exit_code>>

CallParseOauthTokenInfo ==
    /\ Callable
    /\ Returned("parse_oauth_token_info", 0, 0, 0, parse_oauth_token_info(data))
    /\ UNCHANGED <<data, msg, pc, db, token_info, steps, exit_code>>

NextVarint == CallReadVarint

NextFields ==
    \/ CallReadVarint
    \/ CallSkipField
    \/ CallFindField
    \/ CallParseTimestamp
    \/ CallParseOauthTokenInfo

NextMsg ==
    \/ CallFindField
    \/ CallParseTimestamp
    \/ CallParseOauthTokenInfo

SpecVarint == InitVarint /\ [][NextVarint]_vars
SpecRaw == InitRaw /\ [][NextFields]_vars
SpecMsg == InitMsg /\ [][NextMsg]_vars

(***************************************************************************)
(* read_local_token_info (lines 163-191).  The store is missing, holds no  *)
(* row (or an empty one), holds text base64 rejects, or holds a blob.      *)
(***************************************************************************)
read_local_token_info(store) ==
    IF store.kind = "missing" THEN PoRaise("FileNotFoundError")
    ELSE IF store.kind = "norow" THEN PoRaise("ValueError")
    ELSE IF store.kind = "badb64" THEN PoRaise("binascii.Error")
    ELSE LET oauth_field == find_field(store.raw, 6)
         IN  IF oauth_field.kind = "raise" THEN PoRaise(oauth_field.err)
             ELSE IF oauth_field.kind = "None" \/ oauth_field.bytes = <<>>
             THEN PoRaise("ValueError")
             ELSE parse_oauth_token_info(oauth_field.bytes)

(***************************************************************************)
(* main (lines 425-483).                                                   *)
(***************************************************************************)
\* faulty variant: an empty refresh token is accepted
HasRefreshKey(info) == "refresh_token" \in DOMAIN info
\* refresh_token = token_info.get("refresh_token"); not (not refresh_token)
HasRefreshToken(info) ==
    "refresh_token" \in DOMAIN info /\ info["refresh_token"].s # <<>>

CredMessages == SeqsUpTo(Catalog, MaxCred)

Stores ==
    {[kind |-> k, raw |-> <<>>] : k \in {"missing", "norow", "badb64"}}
    \cup {[kind |-> "blob", raw |-> EncodeMsg(pre \o <<FBytes(6, EncodeMsg(cred))>>)] :
            pre \in {<<>>, <<FVarint(1, <<5>>)>>}, cred \in CredMessages}
    \cup {[kind |-> "blob", raw |-> r] : r \in {<<>>, <<8, 5>>, <<50>>, <<50, 5, 26>>}}

InitMain ==
    /\ data = <<>>
    /\ msg = Raw
    /\ call = Idle
    /\ ret = NoRet
    /\ pc = "credentials"
    /\ db \in Stores
    /\ token_info = <<>>
    /\ steps = <<>>
    /\ exit_code = -1

Step(name, ok) == [step |-> name, ok |-> ok]

\* sys.exit(1), directly or from one of the except clauses
Fail(name) ==
    /\ steps' = Append(steps, Step(name, FALSE))
    /\ exit_code' = 1
    /\ pc' = "exit"

Succeed(name, next) ==
    /\ steps' = Append(steps, Step(name, TRUE))
    /\ pc' = next
    /\ exit_code' = IF next = "exit" THEN 0 ELSE exit_code

\* lines 429-434
ReadCredentials ==
    /\ pc = "credentials"
    /\ LET r == read_local_token_info(db)
       IN  IF r.ok /\ HasRefreshToken(r.info)
           THEN Succeed("credentials", "refresh") /\ token_info' = r.info
           ELSE Fail("credentials") /\ UNCHANGED token_info
    /\ UNCHANGED <<data, msg, call, ret, db>>

\* One blocking round trip: the response is the remote side's choice, and
\* anything but a usable response raises into one of the except clauses.
Respond(response, name, next) ==
    IF response = "ok" THEN Succeed(name, next) ELSE Fail(name)

\* line 439, refresh_access_token (lines 199-219)
RefreshAccessToken ==
    /\ pc = "refresh"
    /\ \E response \in {"ok", "invalid_grant", "http_error", "network_error", "bad_body"} :
          Respond(response, "token", "userinfo")
    /\ UNCHANGED <<data, msg, call, ret, db, token_info>>

\* line 442, get_user_email (lines 222-231)
GetUserEmail ==
    /\ pc = "userinfo"
    /\ \E response \in {"ok", "http_error", "network_error", "bad_body"} :
          Respond(response, "userinfo", "project")
    /\ UNCHANGED <<data, msg, call, ret, db, token_info>>

\* lines 449-450, load_project_info (lines 239-263) and extract_project_id
LoadProjectInfo ==
    /\ pc = "project"
    /\ \E response \in {"ok", "401", "http_error", "network_error", "bad_body"} :
          Respond(response, "loadCodeAssist", "fetch")
    /\ UNCHANGED <<data, msg, call, ret, db, token_info>>

\* line 457, fetch_available_models (lines 276-300)
FetchAvailableModels ==
    /\ pc = "fetch"
    /\ \E response \in {"ok", "401", "403", "http_error", "network_error", "bad_body"} :
          Respond(response, "fetchAvailableModels", "output")
    /\ UNCHANGED <<data, msg, call, ret, db, token_info>>

\* lines 460-467: the report is printed, or building or printing it raises;
\* falling off the end of main exits with code 0
Output ==
    /\ pc = "output"
    /\ \E outcome \in {"ok", "error"} : Respond(outcome, "output", "exit")
    /\ UNCHANGED <<data, msg, call, ret, db, token_info>>

NextMain ==
    \/ ReadCredentials
    \/ RefreshAccessToken
    \/ GetUserEmail
    \/ LoadProjectInfo
    \/ FetchAvailableModels
    \/ Output

SpecMain == InitMain /\ [][NextMain]_vars

(***************************************************************************)
(* Reference readings of the wire format, used to state the properties.    *)
(***************************************************************************)
Least(S) == CHOOSE x \in S : \A y \in S : x <= y
Greatest(S) == CHOOSE x \in S : \A y \in S : x >= y

\* The offset just after the varint starting at offset o, or -1 when no
\* byte at or after o has a clear continuation bit.
VarintEnd(d, o) ==
    LET ends == {p \in (o + 1)..Len(d) : d[p] < 128}
    IN  IF ends = {} THEN -1 ELSE Least(ends)

\* The number the bytes d[o..e-1] encode, seven bits a byte.
VarintNumber(d, o, e) == ToNat([i \in 1..(e - o) |-> d[o + i] % 128])

Below2p64(ds) == Len(ds) <= 9 \/ (Len(ds) = 10 /\ ds[10] <= 1)

FieldsAt(fs, num, wt) == {i \in 1..Len(fs) : fs[i].num = num /\ fs[i].wt = wt}

\* The first direct child with the target number and wire type 2.
FirstField(fs, target) ==
    IF FieldsAt(fs, target, 2) = {} THEN FfNone
    ELSE FfBytes(fs[Least(FieldsAt(fs, target, 2))].b)

TextKey == <<"access_token", "token_type", "refresh_token">>
AllKeys == {"access_token", "token_type", "refresh_token", "expiry_seconds"}

OnceEach(fs) ==
    \A n \in 1..3 : Cardinality({i \in 1..Len(fs) : fs[i].num = n}) <= 1

\* What the record must hold for the text fields 1, 2 and 3.
TextKeysAsFields(fs, info) ==
    /\ DOMAIN info \subseteq AllKeys
    /\ "expiry_seconds" \in DOMAIN info => FieldsAt(fs, 4, 2) # {}
    /\ \A n \in 1..3 :
          /\ TextKey[n] \in DOMAIN info <=> FieldsAt(fs, n, 2) # {}
          /\ FieldsAt(fs, n, 2) # {} =>
                LET txt == Utf8Decode(fs[Least(FieldsAt(fs, n, 2))].b)
                IN  txt.ok /\ info[TextKey[n]] = PyStr(txt.text)

\* Every text value is UTF-8 and every field 4 sub-blob decodes.
Decodable(fs) ==
    \A i \in 1..Len(fs) :
        /\ fs[i].num \in 1..3 /\ fs[i].wt = 2 => Utf8Decode(fs[i].b).ok
        /\ fs[i].num = 4 /\ fs[i].wt = 2 => parse_timestamp(fs[i].b).ok

HasSeconds(f) == f.wfsub /\ FieldsAt(f.sub, 1, 0) # {}
Seconds(f) == ToNat(f.sub[Least(FieldsAt(f.sub, 1, 0))].v)

StepOrder ==
    <<"credentials", "token", "userinfo", "loadCodeAssist", "fetchAvailableModels", "output">>

CredentialsUsable(store) ==
    LET r == read_local_token_info(store)
    IN  /\ r.ok
        /\ "refresh_token" \in DOMAIN r.info
        /\ r.info["refresh_token"] # PyStr(<<>>)

(***************************************************************************)
(* The properties.                                                         *)
(***************************************************************************)

\* C1: decoding never goes past the buffer's end: skip_field never returns
\* an offset beyond the buffer length, and find_field, when the first field
\* is the target with a declared length L, returns exactly L bytes, failing
\* when those L bytes are not all in the buffer.
C1_NeverPastEnd ==
    /\ call.op = "skip_field" /\ ret.ok => ret.offset <= Len(data)
    /\ /\ call.op = "find_field"
       /\ Len(data) >= 2
       /\ data[1] = call.target * 8 + 2
       /\ data[2] < 128
       => /\ ret.kind = "bytes" => Len(ret.bytes) = data[2]
          /\ 2 + data[2] > Len(data) => ret.kind = "raise"

\* C2: round trip: wherever the encoding of a value v sits in the buffer,
\* read_varint at its offset returns v and the offset just after it.
C2_RoundTrip ==
    call.op = "read_varint" =>
        \A v \in Values :
            LET e == EncodeVarint(v)
                o == call.offset
            IN  o + Len(e) <= Len(data) /\ SubSeq(data, o + 1, o + Len(e)) = e
                => ret = RvOk(v, o + Len(e))

C2_Witness ==
    /\ call.op = "read_varint"
    /\ call.offset = 2
    /\ data = <<10, 255>> \o EncodeVarint(<<127, 127, 127, 127, 127, 127, 127, 127, 127, 1>>)
              \o <<128>>
    /\ ret.ok
    /\ ret.pos = 12

C4_FirstMatch ==
    call.op = "find_field" /\ msg.wf => ret = FirstField(msg.fields, call.target)

C4_Witness ==
    /\ call.op = "find_field"
    /\ msg.wf
    /\ Len(msg.fields) = 3
    /\ msg.fields[1].num = 5
    /\ msg.fields[2].num = 1 /\ msg.fields[2].wt = 2
    /\ msg.fields[3].num = 1 /\ msg.fields[3].wt = 2
    /\ msg.fields[2].b # msg.fields[3].b
    /\ call.target = 1
    /\ ret = FfBytes(msg.fields[2].b)

\* C5: an incomplete varint met during find_field's scan is never
\* propagated to the caller.
C5_NoVarintErrorEscapes ==
    call.op = "find_field" => ~(ret.kind = "raise" /\ ret.err = "Incomplete varint")

\* C6 as claimed: on every well-formed sub-blob with fields 1, 2 and 3 at
\* most once each, parse_oauth_token_info returns a record whose text keys
\* are exactly the length-delimited fields 1, 2 and 3, UTF-8 decoded.
C6_EveryBlob ==
    call.op = "parse_oauth_token_info" /\ msg.wf /\ OnceEach(msg.fields)
        => ret.ok /\ TextKeysAsFields(msg.fields, ret.info)

\* C6 amended: the same, for the sub-blobs whose length-delimited fields 1,
\* 2 and 3 hold valid UTF-8 and whose length-delimited fields 4 hold a
\* sub-blob parse_timestamp decodes (otherwise the call raises).
C6_DecodableBlob ==
    call.op = "parse_oauth_token_info" /\ msg.wf /\ OnceEach(msg.fields)
    /\ Decodable(msg.fields)
        => ret.ok /\ TextKeysAsFields(msg.fields, ret.info)

C6_Witness ==
    /\ call.op = "parse_oauth_token_info"
    /\ msg.wf
    /\ Len(msg.fields) = 3
    /\ msg.fields[1] = FBytes(1, <<195, 169>>)
    /\ msg.fields[2] = FFixed(3, 5, <<26, 1, 82, 0>>)
    /\ msg.fields[3] = FBytes(2, <<66>>)
    /\ ret.ok
    /\ DOMAIN ret.info = {"access_token", "token_type"}
    /\ ret.info["access_token"] = PyStr(<<233>>)

\* C7 as claimed: the record has the key expiry_seconds exactly when a
\* length-delimited field 4 holds a field 1 of wire type 0.
C7_KeyOnlyWithSeconds ==
    call.op = "parse_oauth_token_info" /\ msg.wf /\ ret.ok =>
        ("expiry_seconds" \in DOMAIN ret.info
            <=> \E i \in FieldsAt(msg.fields, 4, 2) : HasSeconds(msg.fields[i]))

\* C7 amended: the record has the key expiry_seconds exactly when a
\* length-delimited field 4 is present; its value, taken from the last such
\* field, is the varint of the first field 1 of wire type 0 in its sub-blob
\* and None when the sub-blob has no such field.
C7_KeyWithField4 ==
    call.op = "parse_oauth_token_info" /\ msg.wf /\ ret.ok =>
        LET f4 == FieldsAt(msg.fields, 4, 2)
        IN  /\ "expiry_seconds" \in DOMAIN ret.info <=> f4 # {}
            /\ f4 # {} /\ msg.fields[Greatest(f4)].wfsub =>
                  LET f == msg.fields[Greatest(f4)]
                  IN  ret.info["expiry_seconds"] =
                          IF HasSeconds(f) THEN PyInt(Seconds(f)) ELSE PyNone

C7_Witness ==
    /\ call.op = "parse_oauth_token_info"
    /\ msg.wf
    /\ msg.fields = <<FBytes(3, <<82, 84>>), FMsg(4, <<>>)>>
    /\ ret.ok
    /\ "expiry_seconds" \in DOMAIN ret.info
    /\ ret.info["expiry_seconds"] = PyNone

C9_SkipField ==
    call.op = "skip_field" =>
        LET o == call.offset
            e == VarintEnd(data, o)
        IN  CASE call.wire_type = 0 -> (e # -1 => ret = SfOk(e))
              [] call.wire_type = 1 -> ret = SfOk(o + 8)
              [] call.wire_type = 5 -> ret = SfOk(o + 4)
              [] call.wire_type = 2 -> (e # -1 => ret = SfOk(e + VarintNumber(data, o, e)))
              [] OTHER -> ~ret.ok /\ ret.err = "Unknown wire type"

C9_Witness ==
    /\ call.op = "skip_field"
    /\ call.wire_type = 2
    /\ call.offset = 1
    /\ data = <<10, 128, 2>>
    /\ ret = SfOk(3 + 256)

\* C10: read_varint consumes at most 10 bytes and returns only values
\* below 2^64.
C10_AtMostTenBytes ==
    call.op = "read_varint" /\ ret.ok =>
        ret.pos - call.offset <= 10 /\ Below2p64(ret.value)

=============================================================================
